---- MODULE Spec2Model ----
(***************************************************************************)
(* Olist dashboard (premium_dashboard_parquet.py): the data loader, the    *)
(* IQR threshold computation, the state filter, the risk-band counts, the  *)
(* outlier table and the segment cascade, as one state machine whose steps *)
(* are the script runs of main().                                          *)
(*                                                                         *)
(* Numbers.  A pandas cell is modelled as a set: {} is a missing value     *)
(* (NaN / NaT), {v} is the value v.  Every comparison with a missing       *)
(* operand is false, as in pandas.  Timestamps count half days, so that    *)
(* .dt.days really rounds.  Quantiles are kept in quarters and thresholds  *)
(* in fortieths (Scale), which makes 0.25, 0.75, 1.5 and 0.8 exact; the    *)
(* rounding of float64 is not modelled.                                    *)
(***************************************************************************)
EXTENDS Integers, Sequences, FiniteSets, TLC

\* ---- bounds of the explored inputs ----
MaxOrders == 4
MaxRawRows == 2

\* ---- units and program constants ----
DayLen == 2
QuartileParts == 4
Scale == 40
DefaultStates == 5

NaN == {}
NaT == {}
States == {"SP", "RJ"}
Segments == {"Normal", "At-Risk", "High Freight", "Delayed", "Worst Case"}
FileMissing == [exists |-> FALSE, rows |-> <<>>]
Unassigned == [unassigned |-> TRUE]
Unbound == {}

VARIABLES parquet, df, thresholds, selected_state, plot_df,
          at_risk_cnt, worst_case_cnt, outliers_df, Segment, page

vars == <<parquet, df, thresholds, selected_state, plot_df,
          at_risk_cnt, worst_case_cnt, outliers_df, Segment, page>>

\* ---- the rows a file may hold ----
\* delivered orders with every field present, purchased at time 0
CleanRows ==
    [customer_state : States,
     freight_value : {{1}, {2}},
     order_purchase_timestamp : {{0}},
     order_delivered_customer_date : {{1}, {2}}]

\* rows with missing cells, or delivered before they were purchased
RawRows ==
    [customer_state : States,
     freight_value : {{1}, NaN},
     order_purchase_timestamp : {{1}, NaT},
     order_delivered_customer_date : {{0}, {2}, NaT}]

SeqsUpTo(S, n) == UNION {[1..k -> S] : k \in 0..n}

Files(S, n) == [exists : {TRUE}, rows : SeqsUpTo(S, n)]

\* ---- pandas comparisons of a cell with a threshold (fortieths) ----
Gt(cell, th) == \E x \in cell : \E t \in th : Scale * x > t

Le(cell, th) == \E x \in cell : \E t \in th : Scale * x <= t

Lt(cell, th) == \E x \in cell : \E t \in th : Scale * x < t

\* ---- load_data_from_parquet ----
TimedeltaDays(delivered, purchased) ==
    {(d - p) \div DayLen : d \in delivered, p \in purchased}

WithDeliveryDays(row) ==
    [customer_state |-> row.customer_state,
     freight_value |-> row.freight_value,
     order_purchase_timestamp |-> row.order_purchase_timestamp,
     order_delivered_customer_date |-> row.order_delivered_customer_date,
     delivery_days |-> TimedeltaDays(row.order_delivered_customer_date,
                                     row.order_purchase_timestamp)]

Delivered(row) == row.order_delivered_customer_date # NaT

dropna(rows) == SelectSeq(rows, Delivered)

load_data_from_parquet(file) ==
    IF ~file.exists
    THEN <<>>
    ELSE LET kept == dropna(file.rows)
         IN  [i \in 1..Len(kept) |-> WithDeliveryDays(kept[i])]

\* ---- Series.quantile: missing cells skipped, linear interpolation ----
Defined(cell) == cell # NaN

SortedValues(cells) ==
    LET present == SelectSeq(cells, Defined)
    IN  SortSeq([i \in 1..Len(present) |-> CHOOSE x \in present[i] : TRUE],
                LAMBDA x, y : x < y)

\* QuartileParts times the k-th quartile of the column, as a cell
quantile(cells, k) ==
    LET s == SortedValues(cells)
        pos == k * (Len(s) - 1)
        lo == pos \div QuartileParts
        frac == pos % QuartileParts
    IN  IF s = <<>> THEN NaN
        ELSE IF frac = 0 THEN {QuartileParts * s[lo + 1]}
        ELSE {QuartileParts * s[lo + 1] + frac * (s[lo + 2] - s[lo + 1])}

Column(rows, field) == [i \in 1..Len(rows) |-> rows[i][field]]

\* ---- calculate_dynamic_thresholds ----
\* the fence written without its parentheses: q3 + 1.5 * q3 - q1
LimitNoParens(q1, q3) == {5 * (2 * b + 3 * b - 2 * a) : a \in q1, b \in q3}

\* q3 + 1.5 * (q3 - q1), from quarters to fortieths
Limit(q1, q3) == {5 * (2 * b + 3 * (b - a)) : a \in q1, b \in q3}

\* limit * 0.8
Warning(limit) == {(4 * l) \div 5 : l \in limit}

calculate_dynamic_thresholds(rows) ==
    LET f_q1 == quantile(Column(rows, "freight_value"), 1)
        f_q3 == quantile(Column(rows, "freight_value"), 3)
        f_limit == Limit(f_q1, f_q3)
        d_q1 == quantile(Column(rows, "delivery_days"), 1)
        d_q3 == quantile(Column(rows, "delivery_days"), 3)
        d_limit == Limit(d_q1, d_q3)
    IN  [f_limit |-> f_limit, d_limit |-> d_limit,
         f_warning |-> Warning(f_limit), d_warning |-> Warning(d_limit)]

\* ---- main: thresholds are taken from df, before the sidebar filter ----
\* ---- main: sidebar filter ----
RECURSIVE unique(_)
unique(s) ==
    IF s = <<>> THEN <<>>
    ELSE LET rest == unique(SubSeq(s, 1, Len(s) - 1))
             last == s[Len(s)]
         IN  IF \E i \in 1..Len(rest) : rest[i] = last
             THEN rest ELSE Append(rest, last)

state_options(rows) == unique(Column(rows, "customer_state"))

default_options(rows) ==
    LET opts == state_options(rows)
    IN  {opts[i] : i \in 1..(IF Len(opts) < DefaultStates THEN Len(opts) ELSE DefaultStates)}

FilterByState(rows, selected) ==
    IF selected # {}
    THEN SelectSeq(rows, LAMBDA r : r.customer_state \in selected)
    ELSE rows

\* ---- main: thresholds are taken from df, before the sidebar filter ----
ThresholdsOfSelection(loaded, selected) ==
    calculate_dynamic_thresholds(FilterByState(loaded, selected))

MainThresholds(loaded, selected) == calculate_dynamic_thresholds(loaded)

\* ---- main: KPI row 2 ----
InAtRiskBandOpen(r, th) ==
    \/ Gt(r.delivery_days, th.d_warning) /\ Lt(r.delivery_days, th.d_limit)
    \/ Gt(r.freight_value, th.f_warning) /\ Lt(r.freight_value, th.f_limit)

InAtRiskBand(r, th) ==
    \/ Gt(r.delivery_days, th.d_warning) /\ Le(r.delivery_days, th.d_limit)
    \/ Gt(r.freight_value, th.f_warning) /\ Le(r.freight_value, th.f_limit)

IsWorstCase(r, th) ==
    Gt(r.delivery_days, th.d_limit) /\ Gt(r.freight_value, th.f_limit)

AtRiskCount(rows, th) == Len(SelectSeq(rows, LAMBDA r : InAtRiskBand(r, th)))

WorstCaseCount(rows, th) == Len(SelectSeq(rows, LAMBDA r : IsWorstCase(r, th)))

\* ---- main: tab 3, the outlier table ----
IsOutlier(r, th) ==
    Gt(r.delivery_days, th.d_limit) \/ Gt(r.freight_value, th.f_limit)

Outliers(rows, th) == SelectSeq(rows, LAMBDA r : IsOutlier(r, th))

\* ---- main: tab 4, the segment column; later rules overwrite earlier ones ----
SetAtRisk(seg, r, th) ==
    IF Gt(r.delivery_days, th.d_warning) \/ Gt(r.freight_value, th.f_warning)
    THEN "At-Risk" ELSE seg

SetHighFreightWrongColumn(seg, r, th) ==
    IF Gt(r.delivery_days, th.f_limit) THEN "High Freight" ELSE seg

SetHighFreight(seg, r, th) ==
    IF Gt(r.freight_value, th.f_limit) THEN "High Freight" ELSE seg

SetDelayedAtWarning(seg, r, th) ==
    IF Gt(r.delivery_days, th.d_warning) THEN "Delayed" ELSE seg

SetDelayed(seg, r, th) ==
    IF Gt(r.delivery_days, th.d_limit) THEN "Delayed" ELSE seg

SkipWorstCase(seg, r, th) == seg

SetWorstCase(seg, r, th) ==
    IF Gt(r.delivery_days, th.d_limit) /\ Gt(r.freight_value, th.f_limit)
    THEN "Worst Case" ELSE seg

Classify(r, th) ==
    SetWorstCase(SetDelayed(SetHighFreight(SetAtRisk("Normal", r, th), r, th), r, th), r, th)

SegmentColumn(rows, th) == [i \in 1..Len(rows) |-> Classify(rows[i], th)]

\* ---- main: if df.empty: st.warning(...); return ----
NeverEmpty(loaded) == FALSE

IsEmpty(loaded) == loaded = <<>>

\* ---- one run of the script with the multiselect holding `selected`;
\* `loaded` is what load_data_from_parquet returns, computed on the first run
\* and served from st.cache_data on the later ones ----
Main(selected, loaded) ==
    /\ df' = loaded
    /\ IF IsEmpty(df')
       THEN /\ page' = "warning"
            /\ thresholds' = Unassigned
            /\ selected_state' = {}
            /\ plot_df' = <<>>
            /\ at_risk_cnt' = Unbound
            /\ worst_case_cnt' = Unbound
            /\ outliers_df' = <<>>
            /\ Segment' = <<>>
       ELSE /\ thresholds' = MainThresholds(df', selected)
            /\ selected_state' = selected
            /\ plot_df' = FilterByState(df', selected)
            /\ at_risk_cnt' = {AtRiskCount(plot_df', thresholds')}
            /\ worst_case_cnt' = {WorstCaseCount(plot_df', thresholds')}
            /\ outliers_df' = Outliers(plot_df', thresholds')
            /\ Segment' = SegmentColumn(plot_df', thresholds')
            /\ page' = "dashboard"
    /\ UNCHANGED parquet

\* the first run: the multiselect shows its default, the first five states
FirstRun ==
    /\ page = "start"
    /\ Main(default_options(load_data_from_parquet(parquet)),
            load_data_from_parquet(parquet))

\* the user changes the multiselect and the script runs again
SelectState(selected) ==
    /\ page = "dashboard"
    /\ selected # selected_state
    \* the options offered are the states that occur in df
    /\ selected \subseteq {df[i].customer_state : i \in 1..Len(df)}
    /\ Main(selected, df)

Next == FirstRun \/ \E selected \in SUBSET States : SelectState(selected)

Start ==
    /\ df = <<>>
    /\ thresholds = Unassigned
    /\ selected_state = {}
    /\ plot_df = <<>>
    /\ at_risk_cnt = Unbound
    /\ worst_case_cnt = Unbound
    /\ outliers_df = <<>>
    /\ Segment = <<>>
    /\ page = "start"

\* files of complete, delivered orders
Init == parquet \in Files(CleanRows, MaxOrders) /\ Start

Spec == Init /\ [][Next]_vars

\* any file, or none
InitRaw == parquet \in (Files(RawRows, MaxRawRows) \cup {FileMissing}) /\ Start

SpecRaw == InitRaw /\ [][Next]_vars

\* ======================= properties =======================
Rows == 1..Len(plot_df)

Shown == page = "dashboard"

\* C1 (as claimed): the thresholds in use are those of the active (filtered)
\* collection, whatever state selections were made.
C1_ThresholdsOfActiveCollection ==
    Shown => thresholds = calculate_dynamic_thresholds(plot_df)

\* C1 (amended): the thresholds in use are those of the whole loaded
\* collection df, whatever state selections were made; a selection changes
\* plot_df and leaves the thresholds as they were.
C1_ThresholdsOfLoadedCollection ==
    Shown => thresholds = calculate_dynamic_thresholds(df)

C1_FilterChangesDistribution ==
    /\ Shown
    /\ plot_df # df
    /\ calculate_dynamic_thresholds(plot_df) # calculate_dynamic_thresholds(df)

\* C2: a record with both fields defined gets exactly one of the five
\* segments, the one the priority cascade Worst Case, Delayed, High Freight,
\* At-Risk, Normal picks.
CascadeLabel(r, th) ==
    LET late == \E d \in r.delivery_days : \E l \in th.d_limit : Scale * d > l
        dear == \E f \in r.freight_value : \E l \in th.f_limit : Scale * f > l
        warm == \/ \E d \in r.delivery_days : \E w \in th.d_warning : Scale * d > w
                \/ \E f \in r.freight_value : \E w \in th.f_warning : Scale * f > w
    IN  IF late /\ dear THEN "Worst Case"
        ELSE IF late THEN "Delayed"
        ELSE IF dear THEN "High Freight"
        ELSE IF warm THEN "At-Risk"
        ELSE "Normal"

HasBothFields(r) == Defined(r.delivery_days) /\ Defined(r.freight_value)

C2_ClassifyIsTheCascade ==
    Shown =>
        /\ Len(Segment) = Len(plot_df)
        /\ \A i \in Rows :
              HasBothFields(plot_df[i]) =>
                  /\ Segment[i] \in Segments
                  /\ Segment[i] = CascadeLabel(plot_df[i], thresholds)

C2_WorstCaseAmongOthers ==
    /\ Shown
    /\ \E i \in Rows : Segment[i] = "Worst Case"
    /\ \E i \in Rows : Segment[i] = "Normal"

\* C3: in every threshold set that is computed, neither warning exceeds its
\* limit.
NotAbove(warning, limit) == \A w \in warning : \A l \in limit : w <= l

C3_WarningNotAboveLimit ==
    Shown => /\ NotAbove(thresholds.f_warning, thresholds.f_limit)
             /\ NotAbove(thresholds.d_warning, thresholds.d_limit)

\* C4: a column of df holding one value v throughout has Q1 = Q3 = v and
\* limit = v; exactly the values above v are past the limit.
Fields == {"freight_value", "delivery_days"}

LimitOf(field) ==
    IF field = "freight_value" THEN thresholds.f_limit ELSE thresholds.d_limit

WarningOf(field) ==
    IF field = "freight_value" THEN thresholds.f_warning ELSE thresholds.d_warning

Probes == -1..3

SingleValued(field, v) ==
    /\ df # <<>>
    /\ \A i \in 1..Len(df) : df[i][field] = {v}

DegenerateQuartiles(field, v) ==
    /\ quantile(Column(df, field), 1) = {QuartileParts * v}
    /\ quantile(Column(df, field), 3) = {QuartileParts * v}
    /\ LimitOf(field) = {Scale * v}
    /\ \A x \in Probes : Gt({x}, LimitOf(field)) <=> x > v

\* C4 (as claimed): ... and the warning equals the limit.
C4_SingleValueWarningIsLimit ==
    Shown => \A field \in Fields : \A v \in Probes :
                 SingleValued(field, v) =>
                     /\ DegenerateQuartiles(field, v)
                     /\ WarningOf(field) = LimitOf(field)

\* C4 (amended): ... and the warning is 0.8 times that value, which equals
\* the limit only when the value is 0.
C4_SingleValueWarningIsFourFifths ==
    Shown => \A field \in Fields : \A v \in Probes :
                 SingleValued(field, v) =>
                     /\ DegenerateQuartiles(field, v)
                     /\ WarningOf(field) = {(4 * Scale * v) \div 5}
                     /\ (WarningOf(field) = LimitOf(field) <=> v = 0)

C4_OneFreightValue ==
    /\ Shown
    /\ Len(df) > 1
    /\ \E v \in Probes : v # 0 /\ SingleValued("freight_value", v)

\* C5: the at-risk count is the number of records with delivery_days in
\* (d_warning, d_limit] or freight_value in (f_warning, f_limit]; the worst
\* case count is the number of records past both limits.
InInterval(cell, warning, limit) ==
    \E x \in cell : \E w \in warning : \E l \in limit :
        w < Scale * x /\ Scale * x <= l

On(cell, th) == \E x \in cell : \E t \in th : Scale * x = t

BandCountsAsSpecified ==
    /\ at_risk_cnt =
         {Cardinality({i \in Rows :
             \/ InInterval(plot_df[i].delivery_days, thresholds.d_warning, thresholds.d_limit)
             \/ InInterval(plot_df[i].freight_value, thresholds.f_warning, thresholds.f_limit)})}
    /\ worst_case_cnt =
         {Cardinality({i \in Rows :
             /\ \E d \in plot_df[i].delivery_days : \E l \in thresholds.d_limit : Scale * d > l
             /\ \E f \in plot_df[i].freight_value : \E l \in thresholds.f_limit : Scale * f > l})}

OnWarningIsOutside(field) ==
    \A i \in Rows :
        On(plot_df[i][field], WarningOf(field)) =>
            ~InInterval(plot_df[i][field], WarningOf(field), LimitOf(field))

\* C5 (as claimed): ... and a value exactly on a limit is inside that band,
\* a value exactly on a warning outside it.
C5_OnLimitIsInside ==
    Shown =>
        /\ BandCountsAsSpecified
        /\ \A field \in Fields :
              /\ OnWarningIsOutside(field)
              /\ \A i \in Rows :
                    On(plot_df[i][field], LimitOf(field)) =>
                        InInterval(plot_df[i][field], WarningOf(field), LimitOf(field))

\* C5 (amended): ... and a value exactly on a limit is inside that band
\* exactly when the limit is positive (a limit of 0 equals its warning and the
\* band is empty), a value exactly on a warning outside it.
C5_OnPositiveLimitIsInside ==
    Shown =>
        /\ BandCountsAsSpecified
        /\ \A field \in Fields :
              /\ OnWarningIsOutside(field)
              /\ \A i \in Rows :
                    On(plot_df[i][field], LimitOf(field)) =>
                        (InInterval(plot_df[i][field], WarningOf(field), LimitOf(field))
                            <=> \E l \in LimitOf(field) : l > 0)

C5_CountedOnLimit ==
    /\ Shown
    /\ at_risk_cnt = {Len(plot_df)}
    /\ \E i \in Rows :
          /\ On(plot_df[i].freight_value, thresholds.f_limit)
          /\ On(plot_df[i].delivery_days, thresholds.d_warning)
          /\ ~InInterval(plot_df[i].delivery_days, thresholds.d_warning, thresholds.d_limit)

\* C6: when the loaded collection is empty no threshold set exists and
\* nothing downstream is computed; the page shows the placeholder warning.
C6_EmptyInputShowsPlaceholder ==
    (page # "start" /\ load_data_from_parquet(parquet) = <<>>) =>
        /\ page = "warning"
        /\ thresholds = Unassigned
        /\ at_risk_cnt = Unbound /\ worst_case_cnt = Unbound
        /\ outliers_df = <<>> /\ Segment = <<>>

C6_EveryRowDropped ==
    /\ page = "warning"
    /\ parquet.exists
    /\ parquet.rows # <<>>

\* C7: a record whose freight_value or delivery_days is missing never gets a
\* segment label.
C7_MissingFieldNeverLabelled ==
    Shown => \A i \in Rows :
                 ~HasBothFields(plot_df[i]) => Segment[i] \notin Segments

\* C8: every loaded record has a delivered timestamp and a defined
\* delivery_days.
C8_LoadedRecordsHaveDeliveryDays ==
    \A i \in 1..Len(df) :
        /\ df[i].order_delivered_customer_date # NaT
        /\ df[i].delivery_days # NaN

\* C9: with the Worst Case rule last, the rules At-Risk (2), High Freight (3)
\* and Delayed (4) give the label of the code in any of their orders.
Rule(k, seg, r, th) ==
    CASE k = 2 -> SetAtRisk(seg, r, th)
      [] k = 3 -> SetHighFreight(seg, r, th)
      [] k = 4 -> SetDelayed(seg, r, th)

CascadeIn(order, r, th) ==
    SetWorstCase(Rule(order[3], Rule(order[2], Rule(order[1], "Normal", r, th), r, th), r, th), r, th)

Orders == {o \in [1..3 -> {2, 3, 4}] : \A i, j \in 1..3 : o[i] = o[j] => i = j}

\* C9 (as claimed): all six orders agree with the code.
C9_AnyOrderOfMiddleRules ==
    Shown => \A i \in Rows : \A o \in Orders :
                 CascadeIn(o, plot_df[i], thresholds) = Segment[i]

\* C9 (amended): the orders that keep the At-Risk rule first (2,3,4 and
\* 2,4,3) agree with the code.
C9_AtRiskRuleFirst ==
    Shown => \A i \in Rows : \A o \in Orders :
                 o[1] = 2 => CascadeIn(o, plot_df[i], thresholds) = Segment[i]

C9_BothLimitRulesFire ==
    /\ Shown
    /\ \E i \in Rows : /\ Gt(plot_df[i].delivery_days, thresholds.d_limit)
                       /\ Gt(plot_df[i].freight_value, thresholds.f_limit)
                       /\ CascadeIn(<<2, 3, 4>>, plot_df[i], thresholds)
                            = CascadeIn(<<2, 4, 3>>, plot_df[i], thresholds)

\* C10: every record labelled At-Risk is inside the at-risk band, so the
\* at-risk count is at least the number of At-Risk labels.
LabelledAtRisk == {i \in Rows : Segment[i] = "At-Risk"}

C10_AtRiskLabelIsCounted ==
    Shown =>
        /\ \A i \in LabelledAtRisk :
              \/ InInterval(plot_df[i].delivery_days, thresholds.d_warning, thresholds.d_limit)
              \/ InInterval(plot_df[i].freight_value, thresholds.f_warning, thresholds.f_limit)
        /\ \A n \in at_risk_cnt : n >= Cardinality(LabelledAtRisk)

C10_CountedButLabelledDelayed ==
    /\ Shown
    /\ LabelledAtRisk # {}
    /\ \E n \in at_risk_cnt : n > Cardinality(LabelledAtRisk)
    /\ \E i \in Rows : Segment[i] = "Delayed" /\ InAtRiskBand(plot_df[i], thresholds)

====
